---- MODULE Spec2Model ----
(***************************************************************************)
(* Model of data/update_stocks.py: StockDatasetUpdater, the JSON stock     *)
(* dataset with full-universe refresh, single-ticker upsert and the five   *)
(* field setters.                                                          *)
(*                                                                         *)
(* Python values are represented as follows.                               *)
(*   str   a sequence of one-character strings, "" being << >>             *)
(*   None  the one-element sequence <<"None">> (no str has a four-letter   *)
(*         element, so it differs from every str)                          *)
(*   dict  a function whose DOMAIN is the set of keys that are present;    *)
(*         a key that is absent is not in the DOMAIN. An Optional[Dict]    *)
(*         is only ever tested for truth, so its None is the empty dict    *)
(*   list  a sequence                                                      *)
(***************************************************************************)
EXTENDS Integers, Sequences, FiniteSets, TLC

----------------------------------------------------------------------------
(* Python built-ins used by the program *)

None == <<"None">>

EmptyDict == [k \in {} |-> << >>]

\* `not d` for a dict-or-None
NoDict(d) == DOMAIN d = {}

\* truth value of a str-or-None
Truthy(v) == v # None /\ v # << >>

\* `v or d`
Or(v, d) == IF Truthy(v) THEN v ELSE d

\* dict.get(k, default)
Get(d, k, default) == IF k \in DOMAIN d THEN d[k] ELSE default

\* d[k] = v
Put(d, k, v) == [x \in DOMAIN d \cup {k} |-> IF x = k THEN v ELSE d[x]]

\* code points 32..126 in order ("grave" stands for the character of code 96)
AsciiPrintable ==
    <<" ", "!", "\"", "#", "$", "%", "&", "'", "(", ")", "*", "+", ",", "-", ".", "/",
      "0", "1", "2", "3", "4", "5", "6", "7", "8", "9", ":", ";", "<", "=", ">", "?",
      "@", "A", "B", "C", "D", "E", "F", "G", "H", "I", "J", "K", "L", "M", "N", "O",
      "P", "Q", "R", "S", "T", "U", "V", "W", "X", "Y", "Z", "[", "\\", "]", "^", "_",
      "grave", "a", "b", "c", "d", "e", "f", "g", "h", "i", "j", "k", "l", "m", "n", "o",
      "p", "q", "r", "s", "t", "u", "v", "w", "x", "y", "z", "{", "|", "}", "~">>

CodePoint ==
    [c \in {AsciiPrintable[i] : i \in 1..Len(AsciiPrintable)} |->
        31 + (CHOOSE i \in 1..Len(AsciiPrintable) : AsciiPrintable[i] = c)]

\* ord(c)
Ord(c) == CodePoint[c]

\* chr(n)
Chr(n) == AsciiPrintable[n - 31]

IsDigit(c) == Ord(c) >= Ord("0") /\ Ord(c) <= Ord("9")

DigitVal(c) == Ord(c) - Ord("0")

UpperChar ==
    [c \in DOMAIN CodePoint |->
        IF Ord(c) >= Ord("a") /\ Ord(c) <= Ord("z") THEN Chr(Ord(c) - 32) ELSE c]

\* str.upper()
Upper(s) == [i \in 1..Len(s) |-> UpperChar[s[i]]]

Whitespace == {" "}

RECURSIVE LStrip(_)
LStrip(s) == IF s # << >> /\ Head(s) \in Whitespace THEN LStrip(Tail(s)) ELSE s

RECURSIVE RStrip(_)
RStrip(s) ==
    IF s # << >> /\ s[Len(s)] \in Whitespace THEN RStrip(SubSeq(s, 1, Len(s) - 1)) ELSE s

\* str.strip()
Strip(s) == RStrip(LStrip(s))

\* str.rstrip(c) for a single character c
RECURSIVE RStripChar(_, _)
RStripChar(s, c) ==
    IF s # << >> /\ s[Len(s)] = c THEN RStripChar(SubSeq(s, 1, Len(s) - 1), c) ELSE s

\* str.replace(c, "") for a single character c
RECURSIVE RemoveChar(_, _)
RemoveChar(s, c) ==
    IF s = << >> THEN << >>
    ELSE IF Head(s) = c THEN RemoveChar(Tail(s), c)
    ELSE <<Head(s)>> \o RemoveChar(Tail(s), c)

\* a < b on str: lexicographic by code point
RECURSIVE StrLess(_, _)
StrLess(a, b) ==
    IF b = << >> THEN FALSE
    ELSE IF a = << >> THEN TRUE
    ELSE IF Head(a) # Head(b) THEN Ord(Head(a)) < Ord(Head(b))
    ELSE StrLess(Tail(a), Tail(b))

\* SortedKeys gone wrong: descending order
RECURSIVE SortedKeysDescending(_)
SortedKeysDescending(S) ==
    IF S = {} THEN << >>
    ELSE LET m == CHOOSE x \in S : \A y \in S \ {x} : StrLess(y, x)
         IN  <<m>> \o SortedKeysDescending(S \ {m})

\* sorted(keys) for a set of distinct str
RECURSIVE SortedKeys(_)
SortedKeys(S) ==
    IF S = {} THEN << >>
    ELSE LET m == CHOOSE x \in S : \A y \in S \ {x} : StrLess(x, y)
         IN  <<m>> \o SortedKeys(S \ {m})

\* str(n) for n >= 0
RECURSIVE IntToStr(_)
IntToStr(n) ==
    IF n < 10 THEN <<Chr(Ord("0") + n)>>
    ELSE IntToStr(n \div 10) \o <<Chr(Ord("0") + (n % 10))>>

\* int(s) for a str of digits
RECURSIVE StrToInt(_)
StrToInt(s) ==
    IF s = << >> THEN 0
    ELSE 10 * StrToInt(SubSeq(s, 1, Len(s) - 1)) + DigitVal(s[Len(s)])

AllDigits(s) == s # << >> /\ \A i \in 1..Len(s) : IsDigit(s[i])

----------------------------------------------------------------------------
(* Record fields *)

Page(ticker) == <<"s", "t", "o", "c", "k", "s", "/">> \o ticker \o <<".", "h", "t", "m", "l">>

\* the key under which every operation files a stored record
TickerKey(e) == Upper(Or(Get(e, "ticker", None), << >>))

\* {(e.get("ticker") or "").upper(): e for e in data}: a later entry replaces an
\* earlier one with the same key
ByTicker(data) ==
    LET keys == {TickerKey(data[i]) : i \in 1..Len(data)}
        lastIx(k) == CHOOSE i \in 1..Len(data) :
                        /\ TickerKey(data[i]) = k
                        /\ \A j \in (i + 1)..Len(data) : TickerKey(data[j]) # k
    IN  [k \in keys |-> data[lastIx(k)]]

\* [by_ticker[t] for t in sorted(by_ticker.keys())]
SortedValues(by) == LET ks == SortedKeys(DOMAIN by) IN [i \in 1..Len(ks) |-> by[ks[i]]]

EnsureRatingStrategy(rec) ==
    LET r1 == IF Get(rec, "rating", None) = None THEN Put(rec, "rating", << >>) ELSE rec
    IN  IF Get(r1, "strategy", None) = None THEN Put(r1, "strategy", << >>) ELSE r1

----------------------------------------------------------------------------
(* Utils *)

RECURSIVE LStripZeros(_)
LStripZeros(s) == IF Len(s) > 1 /\ Head(s) = "0" THEN LStripZeros(Tail(s)) ELSE s

\* _safe_float. A float is represented by the decimal digits of its value, without
\* leading zeros; the rows of the modelled feeds carry either a non-negative
\* integer or text that float() rejects.
SafeFloat(s) ==
    LET t == Strip(s)
    IN  IF t = << >> THEN None
        ELSE IF AllDigits(t) THEN LStripZeros(t)
        ELSE None

\* _fmt_market_cap. abs_v >= 10^e exactly when v has more than e digits, and
\* f"{v / div:.2f}" is v / div rounded to the nearest hundredth: hundredths is
\* v / div cut after two decimals, third the next digit and cut whether any
\* non-zero digit follows it. An exact tie (third = 5, nothing cut) is rounded by
\* the binary value of the quotient, which is not computed here: no feed of the
\* model carries one.
FmtMarketCap(v) ==
    IF v = None THEN << >>
    ELSE
    LET n    == Len(v)
        e    == IF n > 12 THEN 12 ELSE IF n > 9 THEN 9 ELSE IF n > 6 THEN 6 ELSE 3
        unit == IF n > 12 THEN "T" ELSE IF n > 9 THEN "B" ELSE IF n > 6 THEN "M" ELSE "K"
        hundredths == StrToInt(SubSeq(v, 1, n - e + 2))
        third == DigitVal(v[n - e + 3])
        cut  == \E i \in (n - e + 4)..n : v[i] # "0"
        up   == third > 5 \/ (third = 5 /\ cut)
        h    == IF up THEN hundredths + 1 ELSE hundredths
        frac == <<Chr(Ord("0") + ((h % 100) \div 10)), Chr(Ord("0") + (h % 10))>>
        txt  == IntToStr(h \div 100) \o <<".">> \o frac
    IN  IF n > 3
        THEN RStripChar(RStripChar(txt, "0"), ".") \o <<unit>>
        ELSE v

RECURSIVE DropToDigit(_)
DropToDigit(s) == IF s = << >> \/ IsDigit(Head(s)) THEN s ELSE DropToDigit(Tail(s))

RECURSIVE TakeDigits(_)
TakeDigits(s) ==
    IF s # << >> /\ IsDigit(Head(s)) THEN <<Head(s)>> \o TakeDigits(Tail(s)) ELSE << >>

\* _parse_price: the first match of \d+(?:\.\d+)?
ParsePrice(s) ==
    IF ~Truthy(s) THEN << >>
    ELSE LET t    == DropToDigit(s)
             ip   == TakeDigits(t)
             rest == SubSeq(t, Len(ip) + 1, Len(t))
             fp   == IF rest # << >> /\ Head(rest) = "." THEN TakeDigits(Tail(rest)) ELSE << >>
         IN  IF fp # << >> THEN ip \o <<".">> \o fp ELSE ip

IsLeap(y) == (y % 4 = 0 /\ y % 100 # 0) \/ y % 400 = 0

DaysInMonth(y, m) ==
    IF m = 2 THEN (IF IsLeap(y) THEN 29 ELSE 28)
    ELSE IF m \in {4, 6, 9, 11} THEN 30 ELSE 31

\* the month field of strptime: 1[0-2]|0[1-9]|[1-9]
MonthField(s) ==
    \/ Len(s) = 2 /\ s[1] = "1" /\ s[2] \in {"0", "1", "2"}
    \/ Len(s) = 2 /\ s[1] = "0" /\ IsDigit(s[2]) /\ s[2] # "0"
    \/ Len(s) = 1 /\ IsDigit(s[1]) /\ s[1] # "0"

\* the day field of strptime: 3[0-1]|[1-2]\d|0[1-9]|[1-9]| [1-9]
DayField(s) ==
    \/ Len(s) = 2 /\ s[1] = "3" /\ s[2] \in {"0", "1"}
    \/ Len(s) = 2 /\ s[1] \in {"1", "2"} /\ IsDigit(s[2])
    \/ Len(s) = 2 /\ s[1] \in {"0", " "} /\ IsDigit(s[2]) /\ s[2] # "0"
    \/ Len(s) = 1 /\ IsDigit(s[1]) /\ s[1] # "0"

\* _valid_date: datetime.strptime(s, "%Y-%m-%d") does not raise
ValidDate(s) ==
    /\ Len(s) >= 8
    /\ AllDigits(SubSeq(s, 1, 4))
    /\ s[5] = "-"
    /\ LET rest   == SubSeq(s, 6, Len(s))
           dashes == {i \in 1..Len(rest) : rest[i] = "-"}
       IN  /\ Cardinality(dashes) = 1
           /\ LET d     == CHOOSE i \in dashes : TRUE
                  month == SubSeq(rest, 1, d - 1)
                  day   == SubSeq(rest, d + 1, Len(rest))
              IN  /\ MonthField(month)
                  /\ DayField(day)
                  /\ StrToInt(SubSeq(s, 1, 4)) >= 1
                  /\ StrToInt(Strip(day))
                        <= DaysInMonth(StrToInt(SubSeq(s, 1, 4)), StrToInt(month))

----------------------------------------------------------------------------
(* Normalization *)

\* _normalize_row: None (EmptyDict) when the row has no usable symbol
NormalizeRow(row) ==
    LET ticker   == Upper(Strip(Or(Get(row, "symbol", None), << >>)))
        name     == Strip(Or(Get(row, "name", None), << >>))
        industry == Strip(Or(Or(Get(row, "industry", None), Get(row, "sector", None)), << >>))
        market_cap_raw == Strip(RemoveChar(Or(Get(row, "marketCap", None), << >>), ","))
        market_cap_val == SafeFloat(market_cap_raw)
        market_cap_pretty == IF market_cap_val # None THEN FmtMarketCap(market_cap_val) ELSE << >>
        current_price == ParsePrice(Get(row, "lastsale", << >>))
    IN  IF ticker = << >> THEN EmptyDict
        ELSE [name          |-> name,
              ticker        |-> ticker,
              industry      |-> industry,
              market_cap    |-> market_cap_pretty,
              current_price |-> current_price,
              page          |-> Page(ticker)]

\* _normalize_rows: a later row replaces an earlier one with the same ticker
NormalizeRows(rows) ==
    LET norm(i) == NormalizeRow(rows[i])
        good    == {i \in 1..Len(rows) : ~NoDict(norm(i))}
        keys    == {norm(i).ticker : i \in good}
        lastIx(k) == CHOOSE i \in good :
                        /\ norm(i).ticker = k
                        /\ \A j \in good : j > i => norm(j).ticker # k
    IN  [k \in keys |-> norm(lastIx(k))]

----------------------------------------------------------------------------
(* Fetch helpers.  The screener answers one GET per exchange; a response is    *)
(* [status, rows] with status                                                  *)
(*   "ok"          the body parses and carries rows                            *)
(*   "net_error"   session.get raises (connection error, timeout)              *)
(*   "http_error"  raise_for_status raises                                     *)
(*   "bad_body"    r.json() raises                                             *)

\* self.include, in insertion order
Exchanges == <<"nyse", "nasdaq", "amex">>

Enabled(inc) == SelectSeq(Exchanges, LAMBDA x : inc[x])

RECURSIVE ConcatRows(_, _)
ConcatRows(fd, excs) ==
    IF excs = << >> THEN << >> ELSE fd[Head(excs)].rows \o ConcatRows(fd, Tail(excs))

\* _fetch_universe: any failed exchange raises out of the refresh
FetchUniverse(fd, inc) ==
    LET excs == Enabled(inc)
    IN  IF \E i \in 1..Len(excs) : fd[excs[i]].status # "ok"
        THEN [raised |-> TRUE, universe |-> EmptyDict]
        ELSE [raised |-> FALSE, universe |-> NormalizeRows(ConcatRows(fd, excs))]

RECURSIVE FetchSingleFrom(_, _, _)
FetchSingleFrom(ticker, fd, excs) ==
    IF excs = << >> THEN [raised |-> FALSE, fresh |-> EmptyDict]
    ELSE LET r    == fd[Head(excs)]
             hits == {i \in 1..Len(r.rows) :
                        Upper(Strip(Or(Get(r.rows[i], "symbol", None), << >>))) = ticker}
             first == CHOOSE i \in hits : \A j \in hits : i <= j
         IN  IF r.status = "net_error" THEN [raised |-> TRUE, fresh |-> EmptyDict]
             ELSE IF r.status # "ok" THEN FetchSingleFrom(ticker, fd, Tail(excs))
             ELSE IF hits # {} THEN [raised |-> FALSE, fresh |-> NormalizeRow(r.rows[first])]
             ELSE FetchSingleFrom(ticker, fd, Tail(excs))

\* _fetch_single_from_screener: session.get is outside the try block, so only an
\* HTTP error status or an unparseable body skips to the next exchange
FetchSingleFromScreener(ticker, fd, inc) == FetchSingleFrom(Upper(ticker), fd, Enabled(inc))

----------------------------------------------------------------------------
(* Merge logic.  Every operation returns [raised, out]: out is the list handed *)
(* to _write_json, and nothing is written when raised.                         *)

\* str(v)
Str(v) == IF v = None THEN <<"N", "o", "n", "e">> ELSE v

\* MergeRefreshAll gone wrong: last_updated read from the fresh row, which has none
MergeRefreshAllFromFresh(existing, universe) ==
    LET ex_by_t == ByTicker(existing)
        merged(tkr) ==
            LET fresh == universe[tkr]
                prev  == Get(ex_by_t, tkr, EmptyDict)
            IN  [name          |-> fresh.name,
                 ticker        |-> tkr,
                 industry      |-> fresh.industry,
                 market_cap    |-> fresh.market_cap,
                 last_updated  |-> Get(fresh, "last_updated", << >>),
                 current_price |-> fresh.current_price,
                 target_price  |-> Get(prev, "target_price", << >>),
                 page          |-> Page(tkr)]
    IN  SortedValues([tkr \in DOMAIN universe |-> merged(tkr)])

\* MergeRefreshAll gone wrong: last_updated and target_price read from each
\* other's key
MergeRefreshAllCrossed(existing, universe) ==
    LET ex_by_t == ByTicker(existing)
        merged(tkr) ==
            LET fresh == universe[tkr]
                prev  == Get(ex_by_t, tkr, EmptyDict)
            IN  [name          |-> fresh.name,
                 ticker        |-> tkr,
                 industry      |-> fresh.industry,
                 market_cap    |-> fresh.market_cap,
                 last_updated  |-> Get(prev, "target_price", << >>),
                 current_price |-> fresh.current_price,
                 target_price  |-> Get(prev, "last_updated", << >>),
                 page          |-> Page(tkr)]
    IN  SortedValues([tkr \in DOMAIN universe |-> merged(tkr)])

\* the definition of _merge_refresh_all that is in force: the second one of the
\* class body, which replaces the first and carries neither strategy nor rating
MergeRefreshAll(existing, universe) ==
    LET ex_by_t == ByTicker(existing)
        merged(tkr) ==
            LET fresh == universe[tkr]
                prev  == Get(ex_by_t, tkr, EmptyDict)
            IN  [name          |-> fresh.name,
                 ticker        |-> tkr,
                 industry      |-> fresh.industry,
                 market_cap    |-> fresh.market_cap,
                 last_updated  |-> Get(prev, "last_updated", << >>),
                 current_price |-> fresh.current_price,
                 target_price  |-> Get(prev, "target_price", << >>),
                 page          |-> Page(tkr)]
    IN  SortedValues([tkr \in DOMAIN universe |-> merged(tkr)])

UpdateJson(data, fd, inc) ==
    LET u      == FetchUniverse(fd, inc)
        merged == MergeRefreshAll(data, u.universe)
    IN  IF u.raised THEN [raised |-> TRUE, out |-> data]
        ELSE [raised |-> FALSE,
              out |-> [i \in 1..Len(merged) |-> EnsureRatingStrategy(merged[i])]]

\* MergedIndustry gone wrong: the fresh industry wins when there is one
MergedIndustryFreshWins(prev, fresh) ==
    LET prev_ind == Strip(Or(Get(prev, "industry", None), << >>))
    IN  IF Truthy(Get(fresh, "industry", None)) THEN fresh.industry ELSE prev_ind

\* upsert_ticker's industry: a previous value that is non-empty once stripped wins
MergedIndustry(prev, fresh) ==
    LET prev_ind == Strip(Or(Get(prev, "industry", None), << >>))
    IN  IF prev_ind # << >> THEN prev_ind ELSE Or(Get(fresh, "industry", None), << >>)

UpsertTicker(data, fd, inc, tickerArg, target_price, strategy, rating) ==
    LET ticker == Upper(Strip(tickerArg))
        ex_by_ticker == ByTicker(data)
        f      == FetchSingleFromScreener(ticker, fd, inc)
        prev   == Get(ex_by_ticker, ticker, EmptyDict)
        fresh  == IF NoDict(f.fresh)
                  THEN [name          |-> Get(prev, "name", << >>),
                        ticker        |-> ticker,
                        industry      |-> Get(prev, "industry", << >>),
                        market_cap    |-> Get(prev, "market_cap", << >>),
                        current_price |-> Get(prev, "current_price", << >>),
                        page          |-> Page(ticker)]
                  ELSE f.fresh
        industry == MergedIndustry(prev, fresh)
        merged ==
            [name          |-> fresh.name,
             ticker        |-> ticker,
             industry      |-> industry,
             market_cap    |-> fresh.market_cap,
             last_updated  |-> Get(prev, "last_updated", << >>),
             current_price |-> fresh.current_price,
             target_price  |-> IF target_price # None THEN Str(target_price)
                               ELSE Get(prev, "target_price", << >>),
             strategy      |-> IF strategy # None THEN Str(strategy)
                               ELSE Get(prev, "strategy", << >>),
             rating        |-> IF rating # None THEN Str(rating)
                               ELSE Get(prev, "rating", << >>),
             page          |-> Page(ticker)]
        by  == Put(ex_by_ticker, ticker, merged)
        ks  == SortedKeys(DOMAIN by)
    IN  IF f.raised THEN [raised |-> TRUE, out |-> data]
        ELSE [raised |-> FALSE, out |-> [i \in 1..Len(ks) |-> EnsureRatingStrategy(by[ks[i]])]]

\* `if not rec` after by_ticker.get(ticker): no entry, or an empty one
NoRecord(by, ticker) == ticker \notin DOMAIN by \/ NoDict(by[ticker])

SetTargetPrice(data, now, tickerArg, target_price) ==
    LET ticker    == Upper(Strip(tickerArg))
        by_ticker == ByTicker(data)
        rec0 == IF NoRecord(by_ticker, ticker)
                THEN [name          |-> << >>,
                      ticker        |-> ticker,
                      industry      |-> << >>,
                      market_cap    |-> << >>,
                      last_updated  |-> now,
                      current_price |-> << >>,
                      target_price  |-> Str(target_price),
                      page          |-> Page(ticker)]
                ELSE Put(Put(by_ticker[ticker], "target_price", Str(target_price)),
                         "last_updated", now)
        rec  == Put(rec0, "page", Page(ticker))
    IN  [raised |-> FALSE, out |-> SortedValues(Put(by_ticker, ticker, rec))]

\* SetFieldAndBump gone wrong: an existing record keeps its last_updated
SetFieldWithoutBump(data, now, tickerArg, field, value) ==
    LET ticker    == Upper(Strip(tickerArg))
        by_ticker == ByTicker(data)
        rec  == IF NoRecord(by_ticker, ticker)
                THEN [name          |-> << >>,
                      ticker        |-> ticker,
                      industry      |-> << >>,
                      market_cap    |-> << >>,
                      last_updated  |-> now,
                      current_price |-> << >>,
                      target_price  |-> IF field # "target_price" THEN << >> ELSE value,
                      strategy      |-> IF field # "strategy" THEN << >> ELSE value,
                      rating        |-> << >>,
                      page          |-> Page(ticker)]
                ELSE Put(Put(by_ticker[ticker], field, value), "page", Page(ticker))
    IN  [raised |-> FALSE, out |-> SortedValues(Put(by_ticker, ticker, rec))]

SetFieldAndBump(data, now, tickerArg, field, value) ==
    LET ticker    == Upper(Strip(tickerArg))
        by_ticker == ByTicker(data)
        rec  == IF NoRecord(by_ticker, ticker)
                THEN [name          |-> << >>,
                      ticker        |-> ticker,
                      industry      |-> << >>,
                      market_cap    |-> << >>,
                      last_updated  |-> now,
                      current_price |-> << >>,
                      target_price  |-> IF field # "target_price" THEN << >> ELSE value,
                      strategy      |-> IF field # "strategy" THEN << >> ELSE value,
                      rating        |-> << >>,
                      page          |-> Page(ticker)]
                ELSE Put(Put(Put(by_ticker[ticker], field, value), "last_updated", now),
                         "page", Page(ticker))
    IN  [raised |-> FALSE, out |-> SortedValues(Put(by_ticker, ticker, rec))]

SetStrategy(data, now, tickerArg, strategy) ==
    SetFieldAndBump(data, now, tickerArg, "strategy", Str(strategy))

\* SetRating gone wrong: the date is bumped, as for the bumping setters
SetRatingBumps(data, now, tickerArg, rating) ==
    LET ticker    == Upper(Strip(tickerArg))
        by_ticker == ByTicker(data)
        rec0 == Get(by_ticker, ticker,
                    [name          |-> << >>,
                     ticker        |-> ticker,
                     industry      |-> << >>,
                     market_cap    |-> << >>,
                     last_updated  |-> now,
                     current_price |-> << >>,
                     target_price  |-> << >>,
                     strategy      |-> << >>,
                     rating        |-> << >>,
                     page          |-> Page(ticker)])
        rec  == Put(Put(Put(rec0, "rating", Str(rating)), "last_updated", now),
                    "page", Page(ticker))
    IN  [raised |-> FALSE, out |-> SortedValues(Put(by_ticker, ticker, rec))]

SetRating(data, now, tickerArg, rating) ==
    LET ticker    == Upper(Strip(tickerArg))
        by_ticker == ByTicker(data)
        rec0 == Get(by_ticker, ticker,
                    [name          |-> << >>,
                     ticker        |-> ticker,
                     industry      |-> << >>,
                     market_cap    |-> << >>,
                     last_updated  |-> now,
                     current_price |-> << >>,
                     target_price  |-> << >>,
                     strategy      |-> << >>,
                     rating        |-> << >>,
                     page          |-> Page(ticker)])
        rec  == Put(Put(rec0, "rating", Str(rating)), "page", Page(ticker))
    IN  [raised |-> FALSE, out |-> SortedValues(Put(by_ticker, ticker, rec))]

DeleteWord == <<"d", "e", "l", "e", "t", "e">>

SetLastUpdated(data, now, tickerArg, date) ==
    LET ticker    == Upper(Strip(tickerArg))
        by_ticker == ByTicker(data)
        rec0 == Get(by_ticker, ticker,
                    [name          |-> << >>,
                     ticker        |-> ticker,
                     industry      |-> << >>,
                     market_cap    |-> << >>,
                     current_price |-> << >>,
                     target_price  |-> << >>,
                     page          |-> Page(ticker)])
        invalid == date # << >> /\ date # DeleteWord /\ Truthy(date) /\ ~ValidDate(date)
        value == IF date = << >> THEN now
                 ELSE IF date = DeleteWord THEN << >>
                 ELSE date
        rec  == Put(Put(rec0, "last_updated", value), "page", Page(ticker))
    IN  IF invalid THEN [raised |-> TRUE, out |-> data]
        ELSE [raised |-> FALSE, out |-> SortedValues(Put(by_ticker, ticker, rec))]

SetIndustry(data, tickerArg, industryArg) ==
    LET ticker    == Upper(Strip(tickerArg))
        industry  == Strip(Or(industryArg, << >>))
        by_ticker == ByTicker(data)
        rec0 == Get(by_ticker, ticker,
                    [name          |-> << >>,
                     ticker        |-> ticker,
                     industry      |-> << >>,
                     market_cap    |-> << >>,
                     last_updated  |-> << >>,
                     current_price |-> << >>,
                     target_price  |-> << >>,
                     page          |-> Page(ticker)])
        rec  == Put(Put(rec0, "industry", industry), "page", Page(ticker))
    IN  [raised |-> FALSE, out |-> SortedValues(Put(by_ticker, ticker, rec))]

----------------------------------------------------------------------------
(* Bounds and the values the environment and the operator supply *)

\* events of one session: operations, changes of the feed, midnights
MaxSteps == 2

\* rows of the screener
RowAcme ==
    [symbol    |-> <<"A">>,
     name      |-> <<"A", "c", "m", "e", " ">>,
     industry  |-> <<"H", "w">>,
     sector    |-> <<"T", "e", "c", "h">>,
     marketCap |-> <<"2", ",", "9", "0", "0", ",", "0", "0", "0", ",", "0", "0", "0", ",", "0", "0", "0">>,
     lastsale  |-> <<"$", "2", "2", "7", ".", "1", "5">>]

RowAcmeAlt ==
    [symbol    |-> <<" ", "a", " ">>,
     name      |-> <<"A", "c", "m", "e", " ", "C", "o">>,
     industry  |-> << >>,
     sector    |-> <<"S", "w">>,
     marketCap |-> <<"N", "/", "A">>,
     lastsale  |-> None]

RowBolt ==
    [symbol    |-> <<"B">>,
     name      |-> <<"B", "o", "l", "t">>,
     sector    |-> <<"E", "n">>,
     marketCap |-> <<"1", ",", "5", "0", "0">>,
     lastsale  |-> <<"9", ".", "5", " ", "U", "S", "D">>]

RowNoSymbol ==
    [symbol    |-> <<" ", " ">>,
     name      |-> <<"V", "o", "i", "d">>,
     marketCap |-> <<"9", "5", "0">>]

\* stored records: two in canonical shape, and three as an older version of the
\* program or an editor left them (no strategy or rating, lower-case or repeated
\* ticker, industry with blanks or null)
RecAcme ==
    [name          |-> <<"A", "c", "m", "e">>,
     ticker        |-> <<"A">>,
     industry      |-> <<"H", "w">>,
     market_cap    |-> <<"2", ".", "8", "T">>,
     last_updated  |-> <<"2", "0", "2", "5", "-", "1", "0", "-", "0", "3">>,
     current_price |-> <<"2", "2", "0">>,
     target_price  |-> <<"2", "0", "0">>,
     strategy      |-> <<"S", "w", "i", "n", "g">>,
     rating        |-> <<"H", "o", "l", "d">>,
     page          |-> <<"s", "t", "o", "c", "k", "s", "/", "A", ".", "h", "t", "m", "l">>]

RecCoil ==
    [name          |-> <<"C", "o", "i", "l">>,
     ticker        |-> <<"C">>,
     industry      |-> <<"E", "n">>,
     market_cap    |-> <<"1", "2", "M">>,
     last_updated  |-> << >>,
     current_price |-> <<"3", ".", "1">>,
     target_price  |-> <<"5">>,
     strategy      |-> << >>,
     rating        |-> <<"B">>,
     page          |-> <<"s", "t", "o", "c", "k", "s", "/", "C", ".", "h", "t", "m", "l">>]

OldAcme ==
    [name          |-> <<"A", "c", "m", "e">>,
     ticker        |-> <<"a">>,
     industry      |-> <<" ", "H", "w", " ">>,
     market_cap    |-> <<"2", ".", "8", "T">>,
     last_updated  |-> <<"2", "0", "2", "5", "-", "1", "0", "-", "0", "3">>,
     current_price |-> <<"2", "2", "0">>,
     target_price  |-> <<"2", "0", "0">>,
     page          |-> <<"s", "t", "o", "c", "k", "s", "/", "a", ".", "h", "t", "m", "l">>]

OldCoil ==
    [name          |-> <<"C", "o", "i", "l">>,
     ticker        |-> <<"C">>,
     industry      |-> <<" ">>,
     market_cap    |-> <<"1", "2", "M">>,
     last_updated  |-> <<"2", "0", "2", "5", "-", "0", "9", "-", "0", "1">>,
     current_price |-> <<"3", ".", "1">>,
     target_price  |-> <<"5">>,
     page          |-> <<"s", "t", "o", "c", "k", "s", "/", "C", ".", "h", "t", "m", "l">>]

OldCoilLower ==
    [name          |-> <<"C", "o", "i", "l">>,
     ticker        |-> <<"c">>,
     industry      |-> None,
     market_cap    |-> << >>,
     last_updated  |-> << >>,
     current_price |-> << >>,
     target_price  |-> << >>,
     strategy      |-> None,
     page          |-> <<"s", "t", "o", "c", "k", "s", "/", "c", ".", "h", "t", "m", "l">>]

Ok(rows) == [status |-> "ok", rows |-> rows]

Failed(status) == [status |-> status, rows |-> << >>]

FeedUp ==
    [nyse |-> Ok(<<RowAcme>>), nasdaq |-> Ok(<<RowNoSymbol, RowBolt>>), amex |-> Ok(<< >>)]

FeedMoved ==
    [nyse |-> Ok(<< >>), nasdaq |-> Ok(<<RowAcmeAlt>>), amex |-> Ok(<<RowAcme>>)]

FeedPartial ==
    [nyse |-> Failed("http_error"), nasdaq |-> Ok(<<RowAcmeAlt>>), amex |-> Failed("bad_body")]

FeedDown ==
    [nyse |-> Failed("http_error"), nasdaq |-> Failed("bad_body"), amex |-> Failed("http_error")]

FeedTimeout ==
    [nyse |-> Ok(<<RowBolt>>), nasdaq |-> Failed("net_error"), amex |-> Ok(<<RowAcme>>)]

Feeds == {FeedUp, FeedMoved, FeedPartial, FeedDown, FeedTimeout}

Includes ==
    {[nyse |-> TRUE, nasdaq |-> TRUE, amex |-> TRUE],
     [nyse |-> FALSE, nasdaq |-> TRUE, amex |-> TRUE]}

InitialStores == {<< >>, <<RecAcme, RecCoil>>, <<OldCoilLower, OldAcme, OldCoil>>}

Days == <<<<"2", "0", "2", "5", "-", "1", "1", "-", "0", "3">>, <<"2", "0", "2", "5", "-", "1", "1", "-", "0", "4">>>>

TickerArgs == {<<" ", "a">>, <<"C">>}

TargetPrices == {<<"2", "5", "0">>}

Strategies == {<<"L", "T">>}

Ratings == {<<"B", "u", "y">>}

\* the keyword arguments of upsert_ticker: none, each one alone, all three
Overrides ==
    {o \in [target_price : TargetPrices \cup {None},
            strategy : Strategies \cup {None},
            rating : Ratings \cup {None}] :
        Cardinality({f \in DOMAIN o : o[f] # None}) \in {0, 1, 3}}

IndustryArgs == {<<" ", "S", "w", " ">>, << >>}

DateArgs == {<< >>, DeleteWord, None, <<"2", "0", "2", "5", "-", "1", "0", "-", "3", "1">>, <<"2", "0", "2", "5", "-", "1", "3", "-", "4", "0">>, <<"2", "0", "2", "5", "-", "1", "-", "5">>}

----------------------------------------------------------------------------
(* The state machine *)

VARIABLES
    store,      \* the array in the JSON file; a missing file reads as the empty array
    feed,       \* what the screener answers, per exchange
    today,      \* the local date, as _today() formats it
    include,    \* self.include
    last,       \* history: the operation that ran last, its arguments and the store before it
    steps       \* history: events so far

vars == <<store, feed, today, include, last, steps>>

NoOp == [op |-> "none", ok |-> FALSE, ticker |-> << >>, args |-> EmptyDict,
         pre |-> << >>, again |-> FALSE]

Init ==
    /\ store \in InitialStores
    /\ feed \in Feeds
    /\ today = Days[1]
    /\ include \in Includes
    /\ last = NoOp
    /\ steps = 0

\* an operation ran: store what it wrote, if it wrote
Ran(op, tickerArg, args, result) ==
    /\ steps < MaxSteps
    /\ steps' = steps + 1
    /\ store' = IF result.raised THEN store ELSE result.out
    /\ last' = [op |-> op, ok |-> ~result.raised, ticker |-> tickerArg, args |-> args,
                pre |-> store, again |-> last.ok /\ last.op = op /\ op = "update_json"]
    /\ UNCHANGED <<feed, today, include>>

DoUpdateJson == Ran("update_json", << >>, EmptyDict, UpdateJson(store, feed, include))

DoUpsertTicker ==
    \E t \in TickerArgs, o \in Overrides :
        Ran("upsert_ticker", t, o,
            UpsertTicker(store, feed, include, t, o.target_price, o.strategy, o.rating))

DoSetTargetPrice ==
    \E t \in TickerArgs, tp \in TargetPrices :
        Ran("set_target_price", t, [target_price |-> tp], SetTargetPrice(store, today, t, tp))

DoSetStrategy ==
    \E t \in TickerArgs, st \in Strategies :
        Ran("set_strategy", t, [strategy |-> st], SetStrategy(store, today, t, st))

DoSetRating ==
    \E t \in TickerArgs, ra \in Ratings :
        Ran("set_rating", t, [rating |-> ra], SetRating(store, today, t, ra))

DoSetLastUpdated ==
    \E t \in TickerArgs, d \in DateArgs :
        Ran("set_last_updated", t, [date |-> d], SetLastUpdated(store, today, t, d))

DoSetIndustry ==
    \E t \in TickerArgs, ind \in IndustryArgs :
        Ran("set_industry", t, [industry |-> ind], SetIndustry(store, t, ind))

\* the screener's answers change between two operations
FeedChanges ==
    /\ steps < MaxSteps
    /\ steps' = steps + 1
    /\ feed' \in Feeds \ {feed}
    /\ last' = NoOp
    /\ UNCHANGED <<store, today, include>>

\* midnight
DayPasses ==
    /\ steps < MaxSteps
    /\ steps' = steps + 1
    /\ \E i \in 1..(Len(Days) - 1) : today = Days[i] /\ today' = Days[i + 1]
    /\ last' = NoOp
    /\ UNCHANGED <<store, feed, include>>

Next ==
    \/ DoUpdateJson
    \/ DoUpsertTicker
    \/ DoSetTargetPrice
    \/ DoSetStrategy
    \/ DoSetRating
    \/ DoSetLastUpdated
    \/ DoSetIndustry
    \/ FeedChanges
    \/ DayPasses

Spec == Init /\ [][Next]_vars

\* the same machine started on a missing file
InitEmpty == Init /\ store = << >>

SpecFromEmpty == InitEmpty /\ [][Next]_vars

----------------------------------------------------------------------------
(* Vocabulary of the properties *)

\* the ticker an operation was called for, as the operation keys it
KeyOf(tickerArg) == Upper(Strip(tickerArg))

Keys(data) == {TickerKey(data[i]) : i \in 1..Len(data)}

\* the positions of the records filed under key k
At(data, k) == {i \in 1..Len(data) : TickerKey(data[i]) = k}

\* the values field f has in the records filed under k, an absent field reading
\* as the empty string
Values(data, k, f) == {Get(data[i], f, << >>) : i \in At(data, k)}

\* each record's key is greater than the key before it
StrictlyAscending(data) ==
    \A i \in 1..(Len(data) - 1) : StrLess(TickerKey(data[i]), TickerKey(data[i + 1]))

Wrote(op) == last.op = op /\ last.ok

\* what the screener gives the last operation
Universe == FetchUniverse(feed, include).universe

Fetched == FetchSingleFromScreener(KeyOf(last.ticker), feed, include)

\* the record of the last operation's ticker, before (as the operation read it)
\* and after
Before == Get(ByTicker(last.pre), KeyOf(last.ticker), EmptyDict)

After == Get(ByTicker(store), KeyOf(last.ticker), EmptyDict)

----------------------------------------------------------------------------
(* Properties *)

\* C1: neither refresh changes last_updated. After a completed update_json or
\* upsert_ticker every record of the store has a last_updated, and it is the
\* last_updated a record of that ticker had before the call, or the empty string
\* when the ticker had no record.
RefreshKeepsLastUpdated ==
    (Wrote("update_json") \/ Wrote("upsert_ticker")) =>
        \A i \in 1..Len(store) :
            LET olds == Values(last.pre, TickerKey(store[i]), "last_updated")
            IN  /\ "last_updated" \in DOMAIN store[i]
                /\ IF olds = {} THEN store[i].last_updated = << >>
                   ELSE store[i].last_updated \in olds

\* C1 witness: an upsert with a target_price override found its ticker in the feed,
\* rewrote the name, and the ticker had a dated record before.
RefreshKeepsLastUpdatedWitness ==
    /\ Wrote("upsert_ticker")
    /\ last.args.target_price # None
    /\ ~NoDict(Fetched.fresh)
    /\ ~NoDict(Before)
    /\ Truthy(Before.last_updated)
    /\ After.name # Before.name
    /\ After.last_updated = Before.last_updated

\* C2 as claimed: after update_json a ticker that was in the store and is in the
\* feed has the target_price, strategy and rating it had before, and name,
\* industry, market_cap, current_price and page of the normalized feed row.
FullRefreshPreservesUserFields ==
    Wrote("update_json") =>
        \A k \in Keys(last.pre) \cap DOMAIN Universe :
            /\ At(store, k) # {}
            /\ \A i \in At(store, k) :
                /\ \A f \in {"target_price", "strategy", "rating"} :
                      Get(store[i], f, None) \in Values(last.pre, k, f)
                /\ \A f \in {"name", "industry", "market_cap", "current_price", "page"} :
                      Get(store[i], f, None) = Universe[k][f]

\* C3 as claimed: every ticker with a record before a completed operation has a
\* record after it.
NoOperationDeletes == last.ok => Keys(last.pre) \subseteq Keys(store)

SortedAfterWrite == last.ok => StrictlyAscending(store)

\* C5 witness: a store that was out of order, with a repeated ticker, has been
\* written back with several records.
SortedAfterWriteWitness ==
    /\ last.ok
    /\ ~StrictlyAscending(last.pre)
    /\ Cardinality(Keys(last.pre)) < Len(last.pre)
    /\ Len(store) >= 2

\* a date in the form YYYY-MM-DD, two digits for month and day, that names a day
\* of the calendar
IsIsoDate(d) ==
    /\ d # None
    /\ Len(d) = 10
    /\ d[5] = "-" /\ d[8] = "-"
    /\ AllDigits(SubSeq(d, 1, 4)) /\ AllDigits(SubSeq(d, 6, 7)) /\ AllDigits(SubSeq(d, 9, 10))
    /\ StrToInt(SubSeq(d, 1, 4)) >= 1
    /\ StrToInt(SubSeq(d, 6, 7)) \in 1..12
    /\ StrToInt(SubSeq(d, 9, 10)) >= 1
    /\ StrToInt(SubSeq(d, 9, 10))
          <= DaysInMonth(StrToInt(SubSeq(d, 1, 4)), StrToInt(SubSeq(d, 6, 7)))

\* C6 as claimed: set_last_updated fails, and leaves the store as it was, for
\* every argument that is neither "" nor "delete" nor a valid YYYY-MM-DD date;
\* when it succeeds last_updated is today for "", empty for "delete", and
\* otherwise the date supplied.
SetLastUpdatedValidates ==
    last.op = "set_last_updated" =>
        LET d == last.args.date
        IN  /\ (d # << >> /\ d # DeleteWord /\ ~IsIsoDate(d)) => (~last.ok /\ store = last.pre)
            /\ last.ok => Get(After, "last_updated", None) =
                            (IF d = << >> THEN today ELSE IF d = DeleteWord THEN << >> ELSE d)

\* C7: set_target_price and set_strategy complete, and leave the record of their
\* ticker with the value supplied and with last_updated equal to today's date.
BumpingSettersSetFieldAndDate ==
    /\ last.op = "set_target_price" =>
          /\ last.ok
          /\ Get(After, "target_price", None) = last.args.target_price
          /\ Get(After, "last_updated", None) = today
    /\ last.op = "set_strategy" =>
          /\ last.ok
          /\ Get(After, "strategy", None) = last.args.strategy
          /\ Get(After, "last_updated", None) = today

\* C7 witness: set_strategy on a ticker whose record carried an older date.
BumpingSettersWitness ==
    /\ Wrote("set_strategy")
    /\ ~NoDict(Before)
    /\ Truthy(Get(Before, "last_updated", None))
    /\ Before.last_updated # today
    /\ Get(Before, "strategy", None) # last.args.strategy
    /\ After.strategy = last.args.strategy

\* C8 as claimed: set_rating and set_industry leave last_updated as it was, a
\* ticker without a record counting as having the empty string.
RatingAndIndustryKeepLastUpdated ==
    (Wrote("set_rating") \/ Wrote("set_industry")) =>
        Get(After, "last_updated", None) = Get(Before, "last_updated", << >>)

\* an exchange that is asked and does not answer with rows
FailedExchanges == {i \in 1..Len(Enabled(include)) : feed[Enabled(include)[i]].status # "ok"}

\* C9 as claimed: upsert_ticker completes whichever exchanges fail, and when all
\* of them fail it writes a record with the name, industry, market_cap and
\* current_price stored before (empty if none) and the page of the ticker.
FailedFetchNeverAborts ==
    last.op = "upsert_ticker" =>
        /\ FailedExchanges # {} => last.ok
        /\ Cardinality(FailedExchanges) = Len(Enabled(include)) =>
              /\ \A f \in {"name", "industry", "market_cap", "current_price"} :
                    Get(After, f, None) = Get(Before, f, << >>)
              /\ Get(After, "page", None) = Page(KeyOf(last.ticker))

\* C10: a second update_json in a row, against the same feed, leaves the store
\* the first one wrote.
RefreshIdempotent == (Wrote("update_json") /\ last.again) => store = last.pre

\* C10 witness: update_json ran twice in a row and the store holds a record with
\* a date and a target price.
RefreshIdempotentWitness ==
    /\ Wrote("update_json")
    /\ last.again
    /\ \E i \in 1..Len(store) :
          Truthy(store[i].last_updated) /\ Truthy(store[i].target_price)

\* the ten keys of the JSON record shape
Fields ==
    {"name", "ticker", "industry", "market_cap", "last_updated", "current_price",
     "target_price", "strategy", "rating", "page"}

\* C11 as claimed: starting from a missing file, every record of the store has
\* each of the ten fields, with a string for value and never null.
RecordsCanonical ==
    \A i \in 1..Len(store) :
        \A f \in Fields : f \in DOMAIN store[i] /\ store[i][f] # None

\* the setters, with the field each one is for
SetterField ==
    [set_target_price |-> "target_price", set_strategy |-> "strategy", set_rating |-> "rating",
     set_last_updated |-> "last_updated", set_industry |-> "industry"]

\* the fields a setter may change in the record of its ticker
MayChange(op) ==
    {SetterField[op], "page"}
        \cup (IF op \in {"set_target_price", "set_strategy"} THEN {"last_updated"} ELSE {})

UniqueTickers(data) == Cardinality(Keys(data)) = Len(data)

====
